---------------------------- MODULE Spec2Model ----------------------------
(***************************************************************************)
(* A model of backend/main.py of liorawave: the analyze endpoint (external *)
(* model call, response sanitizer, cost estimate, fallback), the           *)
(* generate-scene endpoint (composition, mock render wait, tracker), the   *)
(* scene viewer and the business tracker.                                  *)
(*                                                                         *)
(* Units.  Python floats are modelled by scaled integers:                  *)
(*   complexity_score                                 in thousandths       *)
(*   positions, scales, intensity                     in tenths            *)
(*   estimated_render_cost, cost_savings, totals      in cents             *)
(*   generation_time                                  in hundredths of s   *)
(* Strings that the code inspects (the request text, the completion) are   *)
(* sequences of tokens; strings it only copies are TLA+ strings.           *)
(***************************************************************************)
EXTENDS Integers, Sequences, FiniteSets, TLC

VARIABLES
    tracker,            \* BusinessTracker: api_calls, scenes_generated, total_cost_savings
    scene_compositions, \* ThreeDGenerator.scene_compositions: scene_id -> composition
    pending,            \* generate-scene coroutines suspended in asyncio.sleep
    resp,               \* the response of the handler that ran last
    run,                \* what the handler that ran last was given and did
    nreq,               \* number of requests received so far
    hist                \* history: what has been answered so far

vars == <<tracker, scene_compositions, pending, resp, run, nreq, hist>>

-----------------------------------------------------------------------------
(* JSON values as json.loads yields them. *)

JList(s) == [t |-> "list", list |-> s]
JStr(s)  == [t |-> "str", str |-> s]
JNum(n)  == [t |-> "num", num |-> n]
JNull    == [t |-> "null"]

\* dict.get(key, default)
Get(d, key, default) == IF key \in DOMAIN d THEN d[key] ELSE default

\* d[key] = value
Put(d, key, value) ==
    [k \in (DOMAIN d) \cup {key} |-> IF k = key THEN value ELSE d[k]]

-----------------------------------------------------------------------------
(* str.strip(), on a sequence of tokens whose whitespace token is " ". *)

RECURSIVE LStrip(_)
LStrip(s) == IF s # <<>> /\ Head(s) = " " THEN LStrip(Tail(s)) ELSE s

RECURSIVE RStrip(_)
RStrip(s) ==
    IF s # <<>> /\ s[Len(s)] = " " THEN RStrip(SubSeq(s, 1, Len(s) - 1)) ELSE s

Strip(s) == RStrip(LStrip(s))

\* str.find(tok): the 0-based index of the first occurrence, -1 if none
Find(s, tok) ==
    IF \E i \in 1..Len(s) : s[i] = tok
    THEN (CHOOSE i \in 1..Len(s) : s[i] = tok /\ \A j \in 1..(i - 1) : s[j] # tok) - 1
    ELSE -1

\* str.rfind(tok): the 0-based index of the last occurrence, -1 if none
RFind(s, tok) ==
    IF \E i \in 1..Len(s) : s[i] = tok
    THEN (CHOOSE i \in 1..Len(s) : s[i] = tok /\ \A j \in (i + 1)..Len(s) : s[j] # tok) - 1
    ELSE -1

\* s[start:end] with 0 <= start <= end <= len(s)
Slice(s, start, end) == SubSeq(s, start + 1, end)

-----------------------------------------------------------------------------
(* json.loads on a completion.  A completion is a sequence of tokens:      *)
(*   " "        whitespace                                                 *)
(*   "FENCE_JSON"  the opening fence with the json language tag (7 chars)  *)
(*   "FENCE"    a bare fence (3 backquotes)                                *)
(*   "{"  "}"   braces                                                     *)
(*   "M"        the members of one JSON object (no braces inside)          *)
(*   "V"        a JSON value that is not an object, such as [1, 2]         *)
(*   "P"        prose: text that is not JSON and holds no brace or fence   *)
(* obj is the dict that the members "M" stand for.                         *)

NoWs(s) == SelectSeq(s, LAMBDA tok : tok # " ")

EmptyDict == [k \in {} |-> JNull]

\* the value of a text whose tokens, whitespace aside, are t: [ok, isdict, value];
\* ok = FALSE is json.JSONDecodeError
JsonValue(t, obj) ==
    CASE t = <<"{", "M", "}">> -> [ok |-> TRUE, isdict |-> TRUE, value |-> obj]
      [] t = <<"{", "}">>      -> [ok |-> TRUE, isdict |-> TRUE, value |-> EmptyDict]
      [] t = <<"V">>           -> [ok |-> TRUE, isdict |-> FALSE, value |-> EmptyDict]
      [] OTHER                 -> [ok |-> FALSE, isdict |-> FALSE, value |-> EmptyDict]

json_loads(s, obj) == JsonValue(NoWs(s), obj)

(* AdvancedStoryAnalyzer._clean_json_response: [ok, str]; ok = FALSE is the *)
(* bare "raise" that re-raises the JSONDecodeError.                         *)

\* if json_str.startswith(FENCE_JSON): json_str = json_str[7:]
StripFenceJson(json_str) ==
    IF json_str # <<>> /\ Head(json_str) = "FENCE_JSON" THEN Tail(json_str) ELSE json_str

\* if json_str.endswith(FENCE): json_str = json_str[:-3]
StripFenceEnd(json_str) ==
    IF json_str # <<>> /\ json_str[Len(json_str)] = "FENCE"
    THEN SubSeq(json_str, 1, Len(json_str) - 1)
    ELSE json_str

\* the except branch: the text from the first "{" to the last "}", unparsed
ExtractObject(json_str, start, end) ==
    IF start >= 0 /\ end > start
    THEN [ok |-> TRUE, str |-> Slice(json_str, start, end)]
    ELSE [ok |-> FALSE, str |-> <<>>]

\* the try block and its except
EnsureJson(json_str, obj) ==
    IF json_loads(json_str, obj).ok
    THEN [ok |-> TRUE, str |-> json_str]
    ELSE ExtractObject(json_str, Find(json_str, "{"), RFind(json_str, "}") + 1)

_clean_json_response(response_text, obj) ==
    EnsureJson(StripFenceEnd(StripFenceJson(Strip(response_text))), obj)

-----------------------------------------------------------------------------
(* AdvancedStoryAnalyzer._calculate_cost_estimate *)

\* round(n / d, 2 places) for a value already scaled to cents: half to even
RoundDiv(n, d) ==
    LET q == n \div d
        r == n % d
    IN  IF 2 * r < d THEN q
        ELSE IF 2 * r > d THEN q + 1
        ELSE IF q % 2 = 0 THEN q ELSE q + 1

\* mutant: an industry without an entry is charged as gaming
base_costs_get_default_gaming(industry) ==
    CASE industry = "education"    -> 3000
      [] industry = "architecture" -> 8000
      [] industry = "ecommerce"    -> 2000
      [] OTHER                     -> 5000

\* base_costs.get(industry, 3000), in dollars
base_costs_get(industry) ==
    CASE industry = "gaming"       -> 5000
      [] industry = "education"    -> 3000
      [] industry = "architecture" -> 8000
      [] industry = "ecommerce"    -> 2000
      [] OTHER                     -> 3000

\* len(x) is defined on lists and strings only
HasLen(v) == v.t \in {"list", "str"}
PyLen(v) == IF v.t = "list" THEN Len(v.list) ELSE Len(v.str)

\* base_cost * (complexity / 5) * (1 + count * 0.1) * 0.2, in cents, for a
\* complexity c in thousandths:
\*   base * (c/5000) * ((10 + count)/10) * (2/10) * 100, rounded to the cent
CostCents(base_cost, c, count) == RoundDiv(base_cost * c * (10 + count), 2500)

\* [ok, value]: ok = FALSE is the TypeError of a non-numeric complexity or of
\* len() of something that is neither a list nor a string
CostOf(complexity, characters, objects, industry) ==
    IF complexity.t = "num" /\ HasLen(characters) /\ HasLen(objects)
    THEN [ok |-> TRUE,
          value |-> CostCents(base_costs_get(industry), complexity.num,
                              PyLen(characters) + PyLen(objects))]
    ELSE [ok |-> FALSE, value |-> 0]

_calculate_cost_estimate(analysis, industry) ==
    CostOf(Get(analysis, "complexity_score", JNum(5000)),
           Get(analysis, "characters", JList(<<>>)),
           Get(analysis, "objects", JList(<<>>)),
           industry)

-----------------------------------------------------------------------------
(* AdvancedStoryAnalyzer.analyze_with_llama *)

None == [none |-> TRUE]

\* min(10, x) as Python computes it: x when x < 10, else 10 (in thousandths)
PyMin10(x) == IF x < 10000 THEN x ELSE 10000

(* The outcome of requests.post is the environment's choice:               *)
(*   [kind |-> "transport_error"]   the connection failed                   *)
(*   [kind |-> "timeout"]           no answer within timeout=45             *)
(*   [kind |-> "response", status_code, body]                               *)
(* with body one of                                                         *)
(*   [kind |-> "not_json"]          response.json() raises                  *)
(*   [kind |-> "no_response_key"]   result['response'] raises KeyError      *)
(*   [kind |-> "completion", toks, obj]   result['response'] is a string    *)
(* Returns None or the analysis dict.                                       *)

\* analysis['complexity_score'] = min(10, analysis.get('complexity_score', 5))
SetComplexity(analysis) ==
    Put(analysis, "complexity_score",
        JNum(PyMin10(Get(analysis, "complexity_score", JNum(5000)).num)))

\* mutant: a numeric cost figure of the model is kept
SetBusinessMetrics_trusting(analysis, cost) ==
    IF ~cost.ok THEN None
    ELSE IF Get(analysis, "estimated_render_cost", JNull).t = "num"
    THEN SetComplexity(analysis)
    ELSE SetComplexity(Put(analysis, "estimated_render_cost", JNum(cost.value)))

\* analysis['estimated_render_cost'] = <cost>, then the complexity; a cost
\* that raised TypeError ends in "except Exception"
SetBusinessMetrics(analysis, cost) ==
    IF ~cost.ok THEN None
    ELSE SetComplexity(Put(analysis, "estimated_render_cost", JNum(cost.value)))

\* analysis = json.loads(json_str) and what follows; a value that is no dict
\* has no .get (AttributeError)
AfterLoads(parsed, industry) ==
    IF ~parsed.ok THEN None
    ELSE IF ~parsed.isdict THEN None
    ELSE SetBusinessMetrics(parsed.value, _calculate_cost_estimate(parsed.value, industry))

\* json_str = self._clean_json_response(result['response']) and what follows
AfterClean(cleaned, obj, industry) ==
    IF ~cleaned.ok THEN None
    ELSE AfterLoads(json_loads(cleaned.str, obj), industry)

\* mutant: a timeout is not caught and reaches the handler
analyze_with_llama_timeout_uncaught(story_text, industry, outcome) ==
    IF outcome.kind = "timeout" THEN [raised |-> JStr("Timeout")]
    ELSE IF outcome.kind # "response" THEN None
    ELSE IF outcome.status_code # 200 THEN None
    ELSE IF outcome.body.kind # "completion" THEN None
    ELSE AfterClean(_clean_json_response(outcome.body.toks, outcome.body.obj),
                    outcome.body.obj, industry)

analyze_with_llama(story_text, industry, outcome) ==
    IF outcome.kind # "response" THEN None                     \* except Exception
    ELSE IF outcome.status_code # 200 THEN None                \* else branch
    ELSE IF outcome.body.kind # "completion" THEN None         \* except Exception
    ELSE AfterClean(_clean_json_response(outcome.body.toks, outcome.body.obj),
                    outcome.body.obj, industry)

-----------------------------------------------------------------------------
(* AdvancedStoryAnalyzer.get_fallback_analysis *)

FallbackBaseline ==
    [characters |-> JList(<<"knight", "dragon">>),
     setting |-> JStr("ancient castle courtyard"),
     objects |-> JList(<<"sword", "treasure chest", "magic crystal">>),
     mood |-> JStr("epic and dramatic"),
     actions |-> JList(<<"confronting", "guarding", "observing">>),
     complexity_score |-> JNum(7500),
     estimated_render_cost |-> JNum(150000)]

\* mutant: the architecture objects are appended, not put in place
get_fallback_analysis_appending(story_text, industry) ==
    LET analysis == FallbackBaseline IN
    IF industry = "education"
    THEN [analysis EXCEPT
            !.objects = JList(@.list \o <<"educational diagram", "information panel">>),
            !.mood = JStr("informative and clear")]
    ELSE IF industry = "architecture"
    THEN [analysis EXCEPT
            !.setting = JStr("modern architectural space"),
            !.objects = JList(@.list \o <<"building model", "blueprint", "scale figure">>)]
    ELSE analysis

get_fallback_analysis(story_text, industry) ==
    LET analysis == FallbackBaseline IN
    IF industry = "education"
    THEN [analysis EXCEPT
            !.objects = JList(@.list \o <<"educational diagram", "information panel">>),
            !.mood = JStr("informative and clear")]
    ELSE IF industry = "architecture"
    THEN [analysis EXCEPT
            !.setting = JStr("modern architectural space"),
            !.objects = JList(<<"building model", "blueprint", "scale figure">>)]
    ELSE analysis

-----------------------------------------------------------------------------
(* StoryAnalysis built from analysis_data: pydantic validation.  Keys that  *)
(* are no field are ignored.  A list field takes a list of strings, a str  *)
(* field a string, a float field a number.                                  *)

ListFields == {"characters", "objects", "actions"}
StrFields == {"setting", "mood"}
FloatFields == {"complexity_score", "estimated_render_cost"}
StoryAnalysisFields == ListFields \cup StrFields \cup FloatFields

StoryAnalysisValid(d) ==
    /\ StoryAnalysisFields \subseteq DOMAIN d
    /\ \A k \in ListFields : d[k].t = "list"
    /\ \A k \in StrFields : d[k].t = "str"
    /\ \A k \in FloatFields : d[k].t = "num"

\* the validated model object
StoryAnalysis(d) ==
    [characters |-> d["characters"].list,
     setting |-> d["setting"].str,
     objects |-> d["objects"].list,
     mood |-> d["mood"].str,
     actions |-> d["actions"].list,
     complexity_score |-> d["complexity_score"].num,
     estimated_render_cost |-> d["estimated_render_cost"].num]

-----------------------------------------------------------------------------
(* BusinessTracker *)

BusinessTrackerInit ==
    [scenes_generated |-> 0,
     api_calls |-> [analyze |-> 0, generate_3d |-> 0, scene_view |-> 0],
     total_cost_savings |-> 0]

track_analysis(t, cost_savings) ==
    [t EXCEPT !.api_calls.analyze = @ + 1,
              !.total_cost_savings = @ + cost_savings]

\* mutant: scenes_generated is not counted
track_generation_calls_only(t) ==
    [t EXCEPT !.api_calls.generate_3d = @ + 1]

track_generation(t) ==
    [t EXCEPT !.api_calls.generate_3d = @ + 1,
              !.scenes_generated = @ + 1]

PyMax1(n) == IF n > 1 THEN n ELSE 1

\* BusinessMetrics; round(total, 2) of a total in cents is the total
get_metrics(t) ==
    [total_scenes_generated |-> t.scenes_generated,
     api_usage |-> t.api_calls,
     cost_savings |->
        [total_saved |-> t.total_cost_savings,
         average_per_scene |->
            RoundDiv(t.total_cost_savings, PyMax1(t.scenes_generated))]]

-----------------------------------------------------------------------------
(* POST /api/analyze *)

AnalysisResponse(success, analysis, engine, industry) ==
    [kind |-> "analyze", status |-> 200, success |-> success,
     analysis |-> analysis, engine |-> engine, industry |-> industry,
     cost_savings |-> analysis.estimated_render_cost]

\* "if not analysis_data": None and the empty dict are falsy
Falsy(d) == d = None \/ DOMAIN d = {}

(* The handler's body as a function of the request and of the outcome of   *)
(* the model call.  raised: an exception reached "except Exception" at the *)
(* end of the handler, be it the HTTPException(400) of the empty text or   *)
(* the ValidationError of StoryAnalysis.                                   *)
\* the except branch of the handler: the fallback analysis, success=False,
\* no tracker call
ExceptBranch(story_text, industry, raised, model_requests, fallback_calls) ==
    [response |-> AnalysisResponse(
                      FALSE, StoryAnalysis(get_fallback_analysis(story_text, industry)),
                      "fallback", industry),
     raised |-> raised,
     tracked |-> FALSE,
     model_requests |-> model_requests,
     fallback_calls |-> fallback_calls + 1]

\* analysis = StoryAnalysis(...), tracker.track_analysis, return
ValidateAndReturn(story_text, industry, analysis_data, engine, fallback_calls) ==
    IF StoryAnalysisValid(analysis_data)
    THEN [response |-> AnalysisResponse(TRUE, StoryAnalysis(analysis_data), engine, industry),
          raised |-> "",
          tracked |-> TRUE,
          model_requests |-> 1,
          fallback_calls |-> fallback_calls]
    ELSE ExceptBranch(story_text, industry, "ValidationError", 1, fallback_calls)

\* mutant: the fallback analysis goes out under the model's tag
ChooseEngine_one_tag(story_text, industry, analysis_data) ==
    IF Falsy(analysis_data)
    THEN ValidateAndReturn(story_text, industry,
                           get_fallback_analysis(story_text, industry), "llama_enhanced", 1)
    ELSE ValidateAndReturn(story_text, industry, analysis_data, "llama_enhanced", 0)

\* "if not analysis_data": the fallback, or the model's analysis
ChooseEngine(story_text, industry, analysis_data) ==
    IF Falsy(analysis_data)
    THEN ValidateAndReturn(story_text, industry,
                           get_fallback_analysis(story_text, industry), "fallback", 1)
    ELSE ValidateAndReturn(story_text, industry, analysis_data, "llama_enhanced", 0)

\* mutant: a model call that gave no analysis is tried once more, in vain,
\* before the fallback
CheckText_retrying(story_text, industry, outcome) ==
    IF story_text = <<>>
    THEN ExceptBranch(story_text, industry, "HTTPException(400)", 0, 0)
    ELSE IF Falsy(analyze_with_llama(story_text, industry, outcome))
    THEN [ChooseEngine(story_text, industry, None) EXCEPT !.model_requests = 2]
    ELSE ChooseEngine(story_text, industry,
                      analyze_with_llama(story_text, industry, outcome))

\* the try block from "if not story_text"
CheckText(story_text, industry, outcome) ==
    IF story_text = <<>>
    THEN ExceptBranch(story_text, industry, "HTTPException(400)", 0, 0)
    ELSE ChooseEngine(story_text, industry,
                      analyze_with_llama(story_text, industry, outcome))

analyze_story_body(text, industry, outcome) == CheckText(Strip(text), industry, outcome)

\* the handler's effect, r being what its body computed
analyze_story_effect(text, industry, outcome, r) ==
    /\ tracker' = IF r.tracked
                  THEN track_analysis(tracker, r.response.analysis.estimated_render_cost)
                  ELSE tracker
    /\ resp' = r.response
    /\ run' = [handler |-> "analyze_story", text |-> text, industry |-> industry,
               outcome |-> outcome, raised |-> r.raised, tracked |-> r.tracked,
               model_requests |-> r.model_requests,
               fallback_calls |-> r.fallback_calls]
    /\ nreq' = nreq + 1
    /\ hist' = [hist EXCEPT
                  !.analyze_ok = @ + (IF r.response.success THEN 1 ELSE 0),
                  !.returned = @ + 1,
                  !.returned_cost = @ + r.response.analysis.estimated_render_cost,
                  !.model_requests = @ + r.model_requests]
    /\ UNCHANGED <<scene_compositions, pending>>

analyze_story(text, industry, outcome) ==
    analyze_story_effect(text, industry, outcome,
                         analyze_story_body(text, industry, outcome))

-----------------------------------------------------------------------------
(* ThreeDGenerator *)

Pos(x, y, z) == [x |-> x, y |-> y, z |-> z]

char_positions == <<Pos(0, 0, 0), Pos(30, 0, 20), Pos(-20, 0, 10)>>

PyMinNat(a, b) == IF a < b THEN a ELSE b

\* s[:n]
Prefix(s, n) == SubSeq(s, 1, PyMinNat(n, Len(s)))

\* enumerate() counts from 0: the element at k is number i = k - 1
CharacterElement(character, i) ==
    [type |-> "character",
     name |-> character,
     description |-> "Main character: " \o character,
     position |-> IF i < Len(char_positions) THEN char_positions[i + 1] ELSE Pos(0, 0, 0),
     scale |-> Pos(10, 10, 10)]

PropElement(obj, i) ==
    [type |-> "prop",
     name |-> obj,
     description |-> "Interactive object: " \o obj,
     position |-> Pos(i * 15 - 30, 0, (i % 2) * 20),
     scale |-> Pos(5, 5, 5)]

SceneComposition(scene_id, characters, objects, mood) ==
    [scene_id |-> scene_id,
     elements |-> [k \in 1..Len(characters) |-> CharacterElement(characters[k], k - 1)]
                  \o [k \in 1..Len(objects) |-> PropElement(objects[k], k - 1)],
     camera_angles |-> <<[position |-> Pos(0, -50, 30), target |-> Pos(0, 0, 0)],
                         [position |-> Pos(50, 0, 20), target |-> Pos(0, 0, 0)]>>,
     lighting |-> [type |-> "three_point", mood |-> mood, intensity |-> 10]]

\* mutant: the two limits exchanged
generate_scene_composition_limits_swapped(analysis, scene_id) ==
    SceneComposition(scene_id, Prefix(analysis.characters, 5),
                     Prefix(analysis.objects, 3), analysis.mood)

\* the composition built for an analysis; scene_id is str(uuid.uuid4())[:8]
generate_scene_composition(analysis, scene_id) ==
    SceneComposition(scene_id, Prefix(analysis.characters, 3),
                     Prefix(analysis.objects, 5), analysis.mood)

\* the part of generate_3d_assets after the sleep; 0.25 per model is 25 cents
ThreeDGenerationResponse(scene_id, model_urls, generation_time) ==
    [kind |-> "generate_scene", status |-> 200, success |-> TRUE,
     scene_id |-> scene_id,
     model_urls |-> model_urls,
     preview_image |-> "/api/mock-preview/" \o scene_id,
     interactive_viewer |-> "/scene-viewer/" \o scene_id,
     format |-> "GLB",
     poly_count |-> Len(model_urls) * 5000,
     generation_time |-> generation_time,
     estimated_cost |-> 25 * Len(model_urls)]

generate_3d_assets(composition, style, quality, generation_time) ==
    ThreeDGenerationResponse(
        composition.scene_id,
        [k \in 1..Len(composition.elements) |->
            "/api/mock-model/" \o composition.scene_id \o "/" \o composition.elements[k].name],
        generation_time)

-----------------------------------------------------------------------------
(* POST /api/generate-scene.  The handler runs without suspension from its *)
(* start to asyncio.sleep in generate_3d_assets (the composition is built  *)
(* and stored on the way), and from its resumption to its return.         *)

\* self.scene_compositions[scene_id] = composition; then the sleep
StoreAndSleep(analysis, composition, style, quality) ==
    /\ scene_compositions' = Put(scene_compositions, composition.scene_id, composition)
    /\ pending' = pending \cup {[rid |-> nreq + 1, composition |-> composition,
                                 style |-> style, quality |-> quality]}
    /\ nreq' = nreq + 1
    /\ run' = [handler |-> "generate_scene", at |-> "sleep", rid |-> nreq + 1,
               analysis |-> analysis, scene_id |-> composition.scene_id]
    /\ UNCHANGED <<tracker, resp, hist>>

generate_scene_start(analysis, style, quality, scene_id) ==
    StoreAndSleep(analysis, generate_scene_composition(analysis, scene_id), style, quality)

\* tracker.track_generation(); return result
TrackAndReturn(p, result) ==
    /\ p \in pending
    /\ pending' = pending \ {p}
    /\ tracker' = track_generation(tracker)
    /\ resp' = result
    /\ run' = [handler |-> "generate_scene", at |-> "return", rid |-> p.rid]
    /\ hist' = [hist EXCEPT
                  !.generate_ok = @ + 1,
                  !.completed = @ \cup {[rid |-> p.rid, scene_id |-> result.scene_id,
                                         composition |-> p.composition]}]
    /\ UNCHANGED <<scene_compositions, nreq>>

generate_scene_resume(p, generation_time) ==
    TrackAndReturn(p, generate_3d_assets(p.composition, p.style, p.quality, generation_time))

-----------------------------------------------------------------------------
(* GET /scene-viewer/{scene_id} *)

\* mutant: the absent composition is not checked for
get_scene_viewer_body_unchecked(compositions, scene_id) ==
    [kind |-> "scene_viewer", status |-> 200,
     scene_id |-> scene_id,
     composition |-> Get(compositions, scene_id, None),
     viewer_url |-> "/api/scene-viewer/" \o scene_id]

\* a SceneComposition object is truthy, so "not composition" is "absent"
get_scene_viewer_body(compositions, scene_id) ==
    IF scene_id \notin DOMAIN compositions
    THEN [kind |-> "scene_viewer", status |-> 404, detail |-> "Scene not found"]
    ELSE [kind |-> "scene_viewer", status |-> 200,
          scene_id |-> scene_id,
          composition |-> compositions[scene_id],
          viewer_url |-> "/api/scene-viewer/" \o scene_id,
          embed_code |-> "<iframe src=\"http://localhost:5000/api/scene-viewer/"
                         \o scene_id \o "\" width=\"800\" height=\"600\"></iframe>"]

get_scene_viewer(scene_id) ==
    /\ resp' = get_scene_viewer_body(scene_compositions, scene_id)
    /\ run' = [handler |-> "get_scene_viewer", scene_id |-> scene_id]
    /\ nreq' = nreq + 1
    /\ UNCHANGED <<tracker, scene_compositions, pending, hist>>

(* GET /api/business-metrics: the route registered first answers *)
get_business_metrics ==
    /\ resp' = [kind |-> "metrics", status |-> 200, metrics |-> get_metrics(tracker)]
    /\ run' = [handler |-> "get_business_metrics"]
    /\ nreq' = nreq + 1
    /\ UNCHANGED <<tracker, scene_compositions, pending, hist>>

-----------------------------------------------------------------------------
(* Requests and outcomes of the model call *)

MaxRequests == 3

Texts == {<<>>, <<" ">>, <<"a">>, <<" ", "a", " ">>}
Industries == {"gaming", "education", "architecture", "ecommerce", "film"}

Drop(d, key) == [k \in (DOMAIN d) \ {key} |-> d[k]]

\* a completion's members with every StoryAnalysis field well typed
Members(characters, complexity_score, estimated_render_cost) ==
    [characters |-> JList(characters),
     setting |-> JStr("dark forest"),
     objects |-> JList(<<"lantern">>),
     mood |-> JStr("tense"),
     actions |-> JList(<<"entering">>),
     complexity_score |-> complexity_score,
     estimated_render_cost |-> estimated_render_cost]

BaseMembers == Members(<<"hero", "orc">>, JNum(6000), JNum(250000))

\* complexity scores a model may answer, in thousandths: below 1, inside [1, 10]
\* (1.234 has more decimals than a cent can hold), above 10
Complexities == {-3000, 0, 500, 1000, 1234, 5000, 7500, 10000, 10100, 12000}

\* cost figures a model may answer, in cents
ModelCosts == {JNum(0), JNum(250000), JNum(99999999), JStr("cheap")}

NumericMembers ==
    LET full == {Members(cs, JNum(c), m) :
                    cs \in {<<>>, <<"hero", "orc">>}, c \in Complexities, m \in ModelCosts}
    IN  full \cup {Drop(d, "estimated_render_cost") : d \in full}

\* values of the wrong type for a field; a number for a str field is left
\* out (pydantic 1 converts it, pydantic 2 rejects it)
WrongValues(k) ==
    IF k \in StrFields THEN {JNull, JList(<<"x">>)}
    ELSE IF k \in ListFields THEN {JNull, JStr("abc"), JNum(3)}
    ELSE {JNull, JStr("high"), JList(<<"x">>)}

DeviantMembers ==
    {Drop(BaseMembers, k) : k \in StoryAnalysisFields}
    \cup UNION {{Put(BaseMembers, k, v) : v \in WrongValues(k)} : k \in StoryAnalysisFields}
    \cup {Put(BaseMembers, "notes", JStr("extra key"))}

Completion(toks, obj) == [kind |-> "completion", toks |-> toks, obj |-> obj]

\* completions holding one object
ObjectShapes ==
    {<<"{", "M", "}">>,
     <<" ", "{", " ", "M", "}", " ">>,
     <<"FENCE_JSON", " ", "{", "M", "}", " ", "FENCE">>,
     <<"FENCE", " ", "{", "M", "}", " ", "FENCE">>,
     <<"FENCE_JSON", "{", "M", "}", "FENCE">>,
     <<"P", " ", "{", "M", "}">>,
     <<"P", " ", "{", "M", "}", " ", "P">>,
     <<"{", "M", "}", "P", "}">>,
     <<"{", "M">>}

\* completions holding none
OtherShapes ==
    {<<>>, <<"P">>, <<"V">>, <<"{", "}">>, <<"}", "P", "{">>,
     <<"FENCE_JSON", "V", "FENCE">>, <<"FENCE_JSON">>, <<"P", "{", "P">>,
     <<"P", "{", "P", "}", "P">>}

Completions ==
    {Completion(<<"{", "M", "}">>, d) : d \in NumericMembers \cup DeviantMembers}
    \cup {Completion(t, d) : t \in ObjectShapes,
             d \in {BaseMembers, Members(<<"hero">>, JNum(12000), JNum(0)),
                    Drop(BaseMembers, "mood")}}
    \cup {Completion(t, EmptyDict) : t \in OtherShapes}

Response(status_code, body) ==
    [kind |-> "response", status_code |-> status_code, body |-> body]

Failures ==
    {[kind |-> "transport_error"], [kind |-> "timeout"]}
    \cup {Response(c, [kind |-> "not_json"]) : c \in {500, 404, 503}}
    \cup {Response(200, [kind |-> "not_json"]), Response(200, [kind |-> "no_response_key"])}

Outcomes == Failures \cup {Response(200, c) : c \in Completions}

\* the requests of the system-level specification
SmallTexts == {<<>>, <<" ", "a">>}
SmallIndustries == {"gaming", "education", "architecture"}
SmallOutcomes ==
    {[kind |-> "timeout"],
     Response(200, Completion(<<"{", "M", "}">>, Members(<<"hero">>, JNum(12000), JNum(0)))),
     Response(200, Completion(<<"{", "M", "}">>, Drop(BaseMembers, "setting")))}

SceneAnalyses ==
    {StoryAnalysis(FallbackBaseline),
     [characters |-> <<"a", "b", "c", "d">>, setting |-> "lab",
      objects |-> <<"p1", "p2", "p3", "p4", "p5", "p6">>, mood |-> "calm",
      actions |-> <<>>, complexity_score |-> 2000, estimated_render_cost |-> 0]}
Styles == {"fantasy"}
Qualities == {"preview"}
SceneIds == {"1a2b3c4d", "9f8e7d6c"}
ViewerIds == SceneIds \cup {"deadbeef"}
GenerationTimes == {200, 201}

-----------------------------------------------------------------------------
(* The system: requests arrive in any order, generate-scene requests wait   *)
(* in their sleep while others run.                                         *)

NoResponse == [kind |-> "none"]

HistInit ==
    [analyze_ok |-> 0, returned |-> 0, returned_cost |-> 0,
     generate_ok |-> 0, completed |-> {}, model_requests |-> 0]

Init ==
    /\ tracker = BusinessTrackerInit
    /\ scene_compositions = EmptyDict
    /\ pending = {}
    /\ resp = NoResponse
    /\ run = [handler |-> "none"]
    /\ nreq = 0
    /\ hist = HistInit

\* mutant: analyze requests are held back while a render wait is on
AnalyzeStory_held_back ==
    \E text \in SmallTexts, industry \in SmallIndustries, outcome \in SmallOutcomes :
        nreq < MaxRequests /\ pending = {} /\ analyze_story(text, industry, outcome)

AnalyzeStory ==
    \E text \in SmallTexts, industry \in SmallIndustries, outcome \in SmallOutcomes :
        nreq < MaxRequests /\ analyze_story(text, industry, outcome)

GenerateSceneStart ==
    \E analysis \in SceneAnalyses, style \in Styles, quality \in Qualities,
       scene_id \in SceneIds :
        nreq < MaxRequests /\ generate_scene_start(analysis, style, quality, scene_id)

\* every request sleeps the same two seconds, so the event loop's timers fire
\* in the order the sleeps began: the request that has waited longest resumes
FirstDue(p) == \A q \in pending : p.rid <= q.rid

ResumeWhenDue(p) ==
    /\ FirstDue(p)
    /\ \E generation_time \in GenerationTimes : generate_scene_resume(p, generation_time)

GenerateSceneResume == \E p \in pending : ResumeWhenDue(p)

GetSceneViewer ==
    \E scene_id \in ViewerIds : nreq < MaxRequests /\ get_scene_viewer(scene_id)

GetBusinessMetrics == nreq < MaxRequests /\ get_business_metrics

Next ==
    \/ AnalyzeStory
    \/ GenerateSceneStart
    \/ GenerateSceneResume
    \/ GetSceneViewer
    \/ GetBusinessMetrics

Spec == Init /\ [][Next]_vars

-----------------------------------------------------------------------------
(* One analyze request, for every text, industry and outcome of the model   *)
(* call: the request is drawn at the start and the handler answers it.      *)

InitAnalyze ==
    /\ tracker = BusinessTrackerInit
    /\ scene_compositions = EmptyDict
    /\ pending = {}
    /\ resp = NoResponse
    /\ run \in {[handler |-> "incoming", text |-> text, industry |-> industry,
                 outcome |-> outcome] :
                   text \in Texts, industry \in Industries, outcome \in Outcomes}
    /\ nreq = 0
    /\ hist = HistInit

AnalyzeIncoming ==
    /\ run.handler = "incoming"
    /\ analyze_story(run.text, run.industry, run.outcome)

SpecAnalyze == InitAnalyze /\ [][AnalyzeIncoming]_vars

-----------------------------------------------------------------------------
(* One generate-scene request, for analyses of every number of characters  *)
(* and objects up to the bounds: the request is drawn at the start.        *)

MaxCharacters == 5
MaxObjects == 7

Named(prefix, n) == [i \in 1..n |-> prefix \o ToString(i)]

ComposeAnalyses ==
    {[characters |-> Named("c", m), setting |-> "lab",
      objects |-> Named("p", n), mood |-> "calm",
      actions |-> <<>>, complexity_score |-> 2000, estimated_render_cost |-> 0] :
        m \in 0..MaxCharacters, n \in 0..MaxObjects}

InitCompose ==
    /\ tracker = BusinessTrackerInit
    /\ scene_compositions = EmptyDict
    /\ pending = {}
    /\ resp = NoResponse
    /\ run \in {[handler |-> "incoming_scene", analysis |-> analysis,
                 scene_id |-> scene_id] :
                   analysis \in ComposeAnalyses, scene_id \in SceneIds}
    /\ nreq = 0
    /\ hist = HistInit

ComposeIncoming ==
    /\ run.handler = "incoming_scene"
    /\ \E style \in Styles, quality \in Qualities :
          generate_scene_start(run.analysis, style, quality, run.scene_id)

NextCompose ==
    \/ ComposeIncoming
    \/ GenerateSceneResume

SpecCompose == InitCompose /\ [][NextCompose]_vars

-----------------------------------------------------------------------------
(* The system with the time of the model call made visible: an analyze     *)
(* request with a text enters requests.post and returns from it later.     *)
(* analyze_with_llama is a plain function called without await and         *)
(* requests.post is a blocking call, so the one thread of the event loop   *)
(* is inside the handler for all that time and runs nothing else.          *)

\* mutant: the model call gives the event loop back, as an awaited call would
LoopFree_awaited == TRUE

\* the event loop's thread is not inside requests.post
LoopFree == run.handler # "analyze_story_call"

\* the handler up to requests.post; an empty text never gets there
AnalyzeStoryCall ==
    /\ LoopFree
    /\ nreq < MaxRequests
    /\ \E text \in SmallTexts, industry \in SmallIndustries :
          /\ Strip(text) # <<>>
          /\ run' = [handler |-> "analyze_story_call", text |-> text,
                     industry |-> industry]
    /\ UNCHANGED <<tracker, scene_compositions, pending, resp, nreq, hist>>

\* requests.post returns or raises, and the handler runs to its return
AnalyzeStoryReturn ==
    /\ run.handler = "analyze_story_call"
    /\ \E outcome \in SmallOutcomes : analyze_story(run.text, run.industry, outcome)

\* the handler for an empty text: no model call
AnalyzeStoryEmpty ==
    /\ LoopFree
    /\ \E text \in SmallTexts, industry \in SmallIndustries, outcome \in SmallOutcomes :
          nreq < MaxRequests /\ Strip(text) = <<>> /\ analyze_story(text, industry, outcome)

GenerateSceneStartWhenFree == LoopFree /\ GenerateSceneStart
GenerateSceneResumeWhenFree == LoopFree /\ GenerateSceneResume
GetSceneViewerWhenFree == LoopFree /\ GetSceneViewer
GetBusinessMetricsWhenFree == LoopFree /\ GetBusinessMetrics

NextBlocking ==
    \/ AnalyzeStoryCall
    \/ AnalyzeStoryReturn
    \/ AnalyzeStoryEmpty
    \/ GenerateSceneStartWhenFree
    \/ GenerateSceneResumeWhenFree
    \/ GetSceneViewerWhenFree
    \/ GetBusinessMetricsWhenFree

SpecBlocking == Init /\ [][NextBlocking]_vars

-----------------------------------------------------------------------------
(* Properties *)

Analyzed == run.handler = "analyze_story"
EmptyText == Strip(run.text) = <<>>

\* the model call failed: transport error, timeout or a status other than 200
ModelCallFailed(outcome) ==
    \/ outcome.kind \in {"transport_error", "timeout"}
    \/ outcome.kind = "response" /\ outcome.status_code # 200

\* what analyze answers after a transport failure
FallbackResponse(industry) ==
    AnalysisResponse(TRUE, StoryAnalysis(get_fallback_analysis(<<>>, industry)),
                     "fallback", industry)

\* C1: an analyze request whose text is empty after trimming is answered
\* with HTTP 400: no analysis is returned and the fallback is not invoked.
C1_EmptyTextRejected ==
    (Analyzed /\ EmptyText) =>
        /\ resp.status = 400
        /\ "analysis" \notin DOMAIN resp
        /\ run.fallback_calls = 0

\* C2: for every non-empty text and every industry, when the model call
\* fails by transport error, timeout or non-success status, analyze answers
\* with success, engine "fallback" and an analysis holding every
\* StoryAnalysis field, and the fallback is what produced it.
C2_ModelFailureFallsBack ==
    (Analyzed /\ ~EmptyText /\ ModelCallFailed(run.outcome)) =>
        /\ resp.status = 200
        /\ resp.success = TRUE
        /\ resp.engine = "fallback"
        /\ DOMAIN resp.analysis = StoryAnalysisFields
        /\ run.raised = ""
        /\ run.fallback_calls = 1

C2_Witness ==
    /\ Analyzed /\ ~EmptyText
    /\ run.outcome.kind = "timeout"
    /\ run.industry = "architecture"
    /\ resp.engine = "fallback" /\ resp.success

\* the completion of a status-200 answer whose members lack one of the
\* fields the model has to supply, or give it a value of the wrong type
ContentFields == ListFields \cup StrFields
MissingOrMistyped(obj) ==
    \E k \in ContentFields :
        \/ k \notin DOMAIN obj
        \/ obj[k].t # (IF k \in ListFields THEN "list" ELSE "str")

UnusableCompletion(outcome) ==
    /\ outcome.kind = "response" /\ outcome.status_code = 200
    /\ outcome.body.kind = "completion"
    /\ \/ ~_clean_json_response(outcome.body.toks, outcome.body.obj).ok
       \/ ~json_loads(_clean_json_response(outcome.body.toks, outcome.body.obj).str,
                      outcome.body.obj).isdict
       \/ /\ NoWs(outcome.body.toks) = <<"{", "M", "}">>
          /\ MissingOrMistyped(outcome.body.obj)

\* C3: when the model call succeeds but the completion cannot be sanitized,
\* is no JSON object, or is an object with missing or mistyped fields, the
\* caller gets what a transport failure gives: the fallback analysis with
\* success, engine "fallback", the tracker notified, no error indication.
C3_UnusableCompletionFallsBack ==
    (Analyzed /\ ~EmptyText /\ UnusableCompletion(run.outcome)) =>
        /\ resp = FallbackResponse(run.industry)
        /\ run.raised = ""
        /\ run.tracked

\* C4: the complexity_score of every analysis that analyze returns lies in
\* [1, 10] (1000..10000 in thousandths), whatever the model supplied.
C4_ComplexityClamped ==
    Analyzed =>
        /\ resp.analysis.complexity_score >= 1000
        /\ resp.analysis.complexity_score <= 10000

\* C5: on the model-success path the returned estimated_render_cost is the
\* cost estimate of the returned (clamped) analysis for the request's
\* industry.
C5_CostOfReturnedAnalysis ==
    (Analyzed /\ resp.engine = "llama_enhanced") =>
        resp.analysis.estimated_render_cost =
            CostOf(JNum(resp.analysis.complexity_score), JList(resp.analysis.characters),
                   JList(resp.analysis.objects), run.industry).value

\* the outcome with the model's own cost figure replaced by v, or removed
WithModelCost(outcome, v) ==
    [outcome EXCEPT !.body.obj = Put(@, "estimated_render_cost", v)]
WithoutModelCost(outcome) ==
    [outcome EXCEPT !.body.obj = Drop(@, "estimated_render_cost")]
ModelCostVariants(outcome) ==
    {WithModelCost(outcome, v) : v \in ModelCosts \cup {JNull}}
    \cup {WithoutModelCost(outcome)}

HasMembers(outcome) ==
    /\ outcome.kind = "response"
    /\ outcome.body.kind = "completion"
    /\ "M" \in {outcome.body.toks[i] : i \in 1..Len(outcome.body.toks)}

\* the response and the tracker update of a run
Observable(r) ==
    [response |-> r.response,
     tracker |-> IF r.tracked
                 THEN track_analysis(BusinessTrackerInit,
                                     r.response.analysis.estimated_render_cost)
                 ELSE BusinessTrackerInit]

\* C6: a run whose completion differs from this run's only in the model's
\* own estimated_render_cost gives the same response and the same tracker
\* update as this run.
C6_ModelCostNeverTrusted ==
    (Analyzed /\ HasMembers(run.outcome)) =>
        \A other \in ModelCostVariants(run.outcome) :
            Observable(analyze_story_body(run.text, run.industry, other))
                = [response |-> resp, tracker |-> tracker]

C6_Witness ==
    /\ Analyzed /\ HasMembers(run.outcome)
    /\ Get(run.outcome.body.obj, "estimated_render_cost", JNull) = JNum(99999999)
    /\ resp.engine = "llama_enhanced"
    /\ resp.cost_savings # 99999999
    /\ tracker.total_cost_savings = resp.cost_savings

\* C7: the tracker counts every analyze answered with success once, and
\* every generate-scene answered once in api_calls.generate_3d and once in
\* scenes_generated, under every interleaving of the requests.
C7_CountersExactlyOnce ==
    /\ tracker.api_calls.analyze = hist.analyze_ok
    /\ tracker.api_calls.generate_3d = hist.generate_ok
    /\ tracker.scenes_generated = hist.generate_ok

C7_Witness ==
    /\ hist.generate_ok = 1
    /\ hist.analyze_ok = 2
    /\ tracker.scenes_generated = 1
    /\ resp.kind = "generate_scene"

\* C8: every analyze invocation that returns an analysis, also the fallback
\* substituted after an error inside the handler, notifies the tracker once
\* with the estimated_render_cost of the returned analysis (stated for the
\* invocations with a non-empty text).
C8_EveryReturnedAnalysisTracked ==
    [][(run'.handler = "analyze_story" /\ nreq' = nreq + 1
        /\ Strip(run'.text) # <<>> /\ "analysis" \in DOMAIN resp')
       => tracker' = track_analysis(tracker, resp'.analysis.estimated_render_cost)]_vars

\* C9: for every generate-scene request that completed with scene id s, the
\* scene viewer answers for s with s and the composition of that request.
C9_CompositionKept ==
    \A d \in hist.completed :
        /\ get_scene_viewer_body(scene_compositions, d.scene_id).status = 200
        /\ get_scene_viewer_body(scene_compositions, d.scene_id).scene_id = d.scene_id
        /\ get_scene_viewer_body(scene_compositions, d.scene_id).composition = d.composition

\* C10: the scene viewer asked for an id that no generate-scene request has
\* stored answers 404 and changes neither the composition mapping nor the
\* tracker.
C10_UnknownSceneNotFound ==
    [][(run'.handler = "get_scene_viewer" /\ nreq' = nreq + 1
        /\ run'.scene_id \notin DOMAIN scene_compositions)
       => /\ resp'.kind = "scene_viewer"
          /\ resp'.status = 404
          /\ scene_compositions' = scene_compositions
          /\ tracker' = tracker]_vars

C10_Witness ==
    /\ run.handler = "get_scene_viewer"
    /\ run.scene_id \notin DOMAIN scene_compositions
    /\ resp.status = 404
    /\ DOMAIN scene_compositions # {}
    /\ tracker.scenes_generated = 1

\* a generate-scene request has built and stored its composition and waits
Composed == run.handler = "generate_scene" /\ run.at = "sleep"

ShownCharacters(analysis) == IF Len(analysis.characters) < 3 THEN Len(analysis.characters) ELSE 3
ShownObjects(analysis) == IF Len(analysis.objects) < 5 THEN Len(analysis.objects) ELSE 5

\* the elements are the first min(m, 3) characters at the three preset places,
\* then the first min(n, 5) objects, the i-th at (i*1.5 - 3, 0, (i mod 2)*2)
LaidOut(analysis, elements) ==
    /\ Len(elements) = ShownCharacters(analysis) + ShownObjects(analysis)
    /\ \A k \in 1..ShownCharacters(analysis) :
          /\ elements[k].type = "character"
          /\ elements[k].name = analysis.characters[k]
          /\ elements[k].position = <<Pos(0, 0, 0), Pos(30, 0, 20), Pos(-20, 0, 10)>>[k]
    /\ \A i \in 0..(ShownObjects(analysis) - 1) :
          /\ elements[ShownCharacters(analysis) + i + 1].type = "prop"
          /\ elements[ShownCharacters(analysis) + i + 1].name = analysis.objects[i + 1]
          /\ elements[ShownCharacters(analysis) + i + 1].position =
                Pos(i * 15 - 30, 0, (i % 2) * 20)

\* C11: the composition of an analysis with m characters and n objects holds
\* exactly min(m, 3) character elements, the first characters in order at
\* (0,0,0), (3,0,2), (-2,0,1), followed by exactly min(n, 5) prop elements, the
\* i-th (from 0) at x = i*1.5 - 3, y = 0, z = (i mod 2)*2; the rest is dropped.
C11_ElementsLaidOut ==
    Composed =>
        /\ run.scene_id \in DOMAIN scene_compositions
        /\ LaidOut(run.analysis, scene_compositions[run.scene_id].elements)

\* an analysis with more than 3 characters and more than 5 objects was composed
C11_Witness ==
    /\ Composed
    /\ Len(run.analysis.characters) > 3
    /\ Len(run.analysis.objects) > 5
    /\ Len(scene_compositions[run.scene_id].elements) = 8

\* the model answered 200 with a completion, which the sanitizer was given
SanitizerRan ==
    /\ Analyzed
    /\ ~EmptyText
    /\ run.outcome.kind = "response"
    /\ run.outcome.status_code = 200
    /\ run.outcome.body.kind = "completion"

Sanitized == _clean_json_response(run.outcome.body.toks, run.outcome.body.obj)

ObjectText == <<"{", "M", "}">>

\* a fenced block, with the json tag or without a tag, around one object
FencedObject(toks) ==
    /\ Len(Strip(toks)) >= 2
    /\ Head(Strip(toks)) \in {"FENCE_JSON", "FENCE"}
    /\ Strip(toks)[Len(Strip(toks))] = "FENCE"
    /\ NoWs(SubSeq(Strip(toks), 2, Len(Strip(toks)) - 1)) = ObjectText

\* prose and whitespace around one object
ProseAroundObject(toks) ==
    /\ \E i \in 1..Len(toks) : toks[i] = "P"
    /\ \E i \in 1..Len(toks) :
          /\ i + 2 <= Len(toks)
          /\ SubSeq(toks, i, i + 2) = ObjectText
          /\ \A j \in (1..Len(toks)) \ (i..(i + 2)) : toks[j] \in {" ", "P"}

\* no part of the text is a JSON object
NoJsonObject(toks) ==
    \A i \in 1..Len(toks) : \A j \in i..Len(toks) :
        NoWs(SubSeq(toks, i, j)) \notin {ObjectText, <<"{", "}">>}

\* C12: for a JSON object in a fenced block (json tag or none) and for prose
\* around one object the sanitizer yields the object's text (the whitespace
\* around it aside); for a completion without a JSON object the sanitizer
\* fails and the request is answered with the fallback analysis.
C12_SanitizerExtractsOrFails ==
    SanitizerRan =>
        /\ (FencedObject(run.outcome.body.toks) \/ ProseAroundObject(run.outcome.body.toks))
              => Sanitized.ok /\ Strip(Sanitized.str) = ObjectText
        /\ NoJsonObject(run.outcome.body.toks)
              => ~Sanitized.ok /\ resp.engine = "fallback"

\* a generate-scene request is suspended in its wait and a further request
\* may arrive
Suspended == pending # {} /\ nreq < MaxRequests

\* each kind of request can start while a request is suspended; analyze,
\* scene-viewer and metrics requests are also done in that step
OthersCanStart ==
    /\ ENABLED AnalyzeStory
    /\ ENABLED GetSceneViewer
    /\ ENABLED GetBusinessMetrics
    /\ ENABLED GenerateSceneStart

\* C13 as claimed: while a generate-scene request is suspended in its wait,
\* any other request (analyze, generate-scene, scene-viewer, metrics) can start
\* and run to completion before the suspended request resumes.
C13_AnyRequestCompletesWhileSuspended ==
    /\ Suspended => OthersCanStart
    /\ \A p \in pending : \A q \in pending :
          p.rid < q.rid => ENABLED ResumeWhenDue(q)

\* C13 amended: while a generate-scene request is suspended in its wait, any
\* analyze, scene-viewer or metrics request can start and run to completion and
\* a further generate-scene request can start and store its composition before
\* the suspended request resumes; the further generate-scene request, whose
\* equal wait began later, completes only after the suspended one has resumed.
C13_OthersRunWhileSuspended ==
    /\ Suspended => OthersCanStart
    /\ \A q \in pending :
          IF \E p \in pending : p.rid < q.rid
          THEN ~ENABLED ResumeWhenDue(q)
          ELSE ENABLED ResumeWhenDue(q)

\* an analyze request was answered, and a second generate-scene request has
\* begun its wait, while an earlier generate-scene request is still suspended
C13_Witness ==
    /\ \E p \in pending : \E q \in pending : p.rid < q.rid
    /\ hist.returned > 0
    /\ hist.generate_ok = 0
    /\ \A p \in pending : p.rid = 1 \/ p.rid = nreq

\* the dict json.loads made of the sanitized completion
Loaded == json_loads(Sanitized.str, run.outcome.body.obj)

\* the estimator was called with the model's dict and returned a cost
EstimatorReturned ==
    /\ SanitizerRan
    /\ Sanitized.ok
    /\ Loaded.ok
    /\ Loaded.isdict
    /\ _calculate_cost_estimate(Loaded.value, run.industry).ok

MaxAdded == 2

WithComplexity(d, c) == Put(d, "complexity_score", JNum(c))

\* the list (or string) v with k more elements
Longer(v, k) ==
    IF v.t = "list" THEN JList(v.list \o Named("x", k)) ELSE JStr(v.str \o "x")

WithMore(d, key, k) == Put(d, key, Longer(Get(d, key, JList(<<>>)), k))

EstimateOf(d, industry) == _calculate_cost_estimate(d, industry).value

NeverDecreases(d, industry) ==
    /\ \A c \in Complexities :
          c >= Get(d, "complexity_score", JNum(5000)).num
              => EstimateOf(WithComplexity(d, c), industry) >= EstimateOf(d, industry)
    /\ \A k \in 1..MaxAdded : \A key \in {"characters", "objects"} :
          EstimateOf(WithMore(d, key, k), industry) >= EstimateOf(d, industry)

\* C14: for a fixed industry the estimate never decreases when the complexity
\* grows with the element count fixed, nor when the element count grows with
\* the complexity fixed, for every complexity the estimator is called with (the
\* model's unclamped value); the returned cost is the estimate of its inputs.
C14_CostMonotone ==
    EstimatorReturned =>
        /\ NeverDecreases(Loaded.value, run.industry)
        /\ run.raised = "" =>
              resp.analysis.estimated_render_cost = EstimateOf(Loaded.value, run.industry)

\* the returned analysis holds what the model's completion said
FromCompletion(analysis) ==
    /\ EstimatorReturned
    /\ \A k \in ListFields : analysis[k] = Loaded.value[k].list
    /\ \A k \in StrFields : analysis[k] = Loaded.value[k].str

\* the returned analysis is what get_fallback_analysis makes for the industry
FromFallback(analysis) ==
    /\ run.fallback_calls > 0
    /\ analysis = StoryAnalysis(get_fallback_analysis(Strip(run.text), run.industry))

\* C15 as claimed: the engine tag of a response names the path that made its
\* analysis: "model" exactly when the analysis was parsed from the model's
\* completion, "fallback" exactly when get_fallback_analysis made it.
C15_EngineModelOrFallback ==
    Analyzed =>
        /\ resp.engine \in {"model", "fallback"}
        /\ resp.engine = "model" <=> run.fallback_calls = 0
        /\ resp.engine = "model" => FromCompletion(resp.analysis)
        /\ resp.engine = "fallback" => FromFallback(resp.analysis)

\* C15 amended: the engine tag of a response names the path that made its
\* analysis: "llama_enhanced" exactly when the analysis was parsed from the
\* model's completion, "fallback" exactly when get_fallback_analysis made it;
\* tag and analysis never disagree.
C15_EngineNamesPath ==
    Analyzed =>
        /\ resp.engine \in {"llama_enhanced", "fallback"}
        /\ resp.engine = "llama_enhanced" <=> run.fallback_calls = 0
        /\ resp.engine = "llama_enhanced" => FromCompletion(resp.analysis)
        /\ resp.engine = "fallback" => FromFallback(resp.analysis)

\* an analysis parsed from a fenced completion went out under the model's tag
C15_Witness ==
    /\ Analyzed
    /\ resp.engine = "llama_enhanced"
    /\ Head(run.outcome.body.toks) = "FENCE_JSON"
    /\ resp.analysis.characters = <<"hero">>

\* the base costs as the claim lists them, in dollars
ClaimedBase(industry) ==
    IF industry = "gaming" THEN 5000
    ELSE IF industry = "education" THEN 3000
    ELSE IF industry = "architecture" THEN 8000
    ELSE IF industry = "ecommerce" THEN 2000
    ELSE 3000

\* 2500 times base * (complexity/5) * (1 + 0.1*(characters + objects)) * 0.2
\* in cents, complexity being in thousandths (5 where the dict has none)
ClaimedProduct(d, industry) ==
    ClaimedBase(industry)
    * Get(d, "complexity_score", JNum(5000)).num
    * (10 + PyLen(Get(d, "characters", JList(<<>>))) + PyLen(Get(d, "objects", JList(<<>>))))

AbsDiff(a, b) == IF a < b THEN b - a ELSE a - b

\* d with a field that the estimator has no business with changed or gone
OtherFieldVariants(d) ==
    {d}
    \cup {Put(d, k, JStr("other")) : k \in {"setting", "mood", "actions", "notes"}}
    \cup {Put(d, "estimated_render_cost", JNum(1))}
    \cup {Drop(d, k) : k \in {"setting", "mood", "actions", "estimated_render_cost"}}

\* C16 as claimed: the estimator returns base(industry) * (complexity/5) *
\* (1 + 0.1*(characters + objects)) * 0.2, the base being 5000 for gaming, 3000
\* for education, 8000 for architecture, 2000 for ecommerce and 3000 for any
\* other industry, and reads no other field.
C16_CostIsTheProduct ==
    EstimatorReturned =>
        \A d \in OtherFieldVariants(Loaded.value) :
            2500 * EstimateOf(d, run.industry) = ClaimedProduct(Loaded.value, run.industry)

\* C16 amended: the estimator returns that product rounded to two decimal
\* places (to the cent), with the same bases, and reads no other field.
C16_CostIsTheRoundedProduct ==
    EstimatorReturned =>
        \A d \in OtherFieldVariants(Loaded.value) :
            2 * AbsDiff(2500 * EstimateOf(d, run.industry),
                        ClaimedProduct(Loaded.value, run.industry)) <= 2500

\* an estimate for an industry without a base of its own whose product has
\* more than two decimal places
C16_Witness ==
    /\ EstimatorReturned
    /\ run.industry = "film"
    /\ ClaimedProduct(Loaded.value, run.industry) % 2500 # 0
    /\ resp.engine = "llama_enhanced"

\* C17: the estimated_render_cost of the analysis get_fallback_analysis makes
\* for an industry is the cost estimate of that analysis (its complexity 7.5
\* and its characters and objects after the industry's changes) for that
\* industry; so it is for the fallback analysis a request is answered with.
C17_FallbackCostIsEstimate ==
    (Analyzed /\ resp.engine = "fallback") =>
        /\ get_fallback_analysis(Strip(run.text), run.industry).estimated_render_cost.num =
              EstimateOf(get_fallback_analysis(Strip(run.text), run.industry), run.industry)
        /\ resp.analysis.estimated_render_cost =
              EstimateOf(get_fallback_analysis(Strip(run.text), run.industry), run.industry)

\* the baseline analysis of the fallback, as the response carries it
ExpectedBaseline ==
    [characters |-> <<"knight", "dragon">>,
     setting |-> "ancient castle courtyard",
     objects |-> <<"sword", "treasure chest", "magic crystal">>,
     mood |-> "epic and dramatic",
     actions |-> <<"confronting", "guarding", "observing">>,
     complexity_score |-> 7500,
     estimated_render_cost |-> 150000]

ExpectedFallback(industry) ==
    IF industry = "education"
    THEN [ExpectedBaseline EXCEPT
            !.objects = <<"sword", "treasure chest", "magic crystal",
                          "educational diagram", "information panel">>,
            !.mood = "informative and clear"]
    ELSE IF industry = "architecture"
    THEN [ExpectedBaseline EXCEPT
            !.setting = "modern architectural space",
            !.objects = <<"building model", "blueprint", "scale figure">>]
    ELSE ExpectedBaseline

\* C18: after any earlier requests the fallback analysis depends on the
\* industry alone: for education the baseline with two objects appended (five
\* in all) and the mood replaced, for architecture the baseline with the
\* setting replaced and three objects in place of the baseline's, for any other
\* industry the baseline; earlier calls add nothing and the text changes nothing.
C18_FallbackDependsOnIndustry ==
    (Analyzed /\ resp.engine = "fallback") =>
        resp.analysis = ExpectedFallback(run.industry)

\* a second fallback answer in a row, for education, still with five objects
C18_Witness ==
    /\ Analyzed
    /\ resp.engine = "fallback"
    /\ run.industry = "education"
    /\ hist.returned = 2
    /\ hist.returned_cost = 300000
    /\ Len(resp.analysis.objects) = 5

\* C19: the sanitizer has two outcomes only: it returns a string that parses as
\* a JSON object, or it signals malformed output; it never returns a string
\* that fails to parse, also when the text between the first "{" and the last
\* "}" is not valid JSON.
C19_SanitizedParsesOrRaises ==
    (SanitizerRan /\ Sanitized.ok) => Loaded.ok /\ Loaded.isdict

\* this step is an analyze request, handled from start to end
AnalyzeStep == nreq' = nreq + 1 /\ run'.handler = "analyze_story"

ModelRequestsDue == IF Strip(run'.text) = <<>> THEN 0 ELSE 1

\* C20: an analyze request sends at most one request to the model: one when
\* its text is not empty, none when it is; after a failed model call comes the
\* fallback and no second request; no other handler, generate-scene included,
\* sends any.
C20_AtMostOneModelRequest ==
    [][/\ AnalyzeStep =>
            /\ hist'.model_requests = hist.model_requests + ModelRequestsDue
            /\ run'.model_requests = ModelRequestsDue
            /\ (ModelRequestsDue = 1 /\ ModelCallFailed(run'.outcome)) =>
                  run'.fallback_calls = 1 /\ resp'.engine = "fallback"
       /\ ~AnalyzeStep => hist'.model_requests = hist.model_requests
      ]_vars

\* a model call timed out and the fallback answered after one request, in a
\* run where a generate-scene request went before and sent none
C20_Witness ==
    /\ Analyzed
    /\ ~EmptyText
    /\ run.outcome.kind = "timeout"
    /\ run.fallback_calls = 1
    /\ hist.model_requests = 1
    /\ hist.generate_ok = 1

\* the number of compositions GET /scene-viewer can answer with
StoredCompositions == Cardinality(DOMAIN scene_compositions)

\* C21: api_calls.generate_3d equals scenes_generated, and scenes_generated is
\* at most the number of stored compositions (a composition is stored before
\* the wait, the tracker counts after it); the two are equal whenever no
\* generate-scene request is in its wait.
C21_GeneratedAtMostStored ==
    /\ tracker.api_calls.generate_3d = tracker.scenes_generated
    /\ tracker.scenes_generated <= StoredCompositions
    /\ pending = {} => tracker.scenes_generated = StoredCompositions

\* an analyze request is inside its model call
InModelCall == run.handler = "analyze_story_call"

\* C22: the analyze handler has no suspension point: while an analyze request
\* waits for the model no other handler takes a step, so the only step out of
\* that wait is the same request running on to the tracker update and its
\* response; a generate-scene request whose wait has elapsed is still waiting
\* when the analyze request has returned.
C22_AnalyzeBlocksTheLoop ==
    [][InModelCall =>
        /\ run'.handler = "analyze_story"
        /\ run'.text = run.text
        /\ run'.industry = run.industry
        /\ run'.model_requests = 1
        /\ nreq' = nreq + 1
        /\ resp'.kind = "analyze"
        /\ pending' = pending
        /\ scene_compositions' = scene_compositions
        /\ tracker'.api_calls.generate_3d = tracker.api_calls.generate_3d
        /\ tracker'.scenes_generated = tracker.scenes_generated
      ]_vars

\* an analyze request with a text has gone through its model call and
\* returned while a generate-scene request that began before it still waits
C22_Witness ==
    /\ Analyzed
    /\ ~EmptyText
    /\ run.model_requests = 1
    /\ \E p \in pending : p.rid < nreq

=============================================================================
